---- MODULE Spec2Model ----
(***************************************************************************)
(* Model of stylo, the StyxOS logging utility (src/core/stylo/src/main.rs). *)
(*                                                                         *)
(* Processes: logging daemons (run_daemon), one-shot writers (run_oneshot) *)
(* and a retention sweep (run_cleanup).  They share one SQLite store (the  *)
(* logs table with an AUTOINCREMENT id, the engine's write lock with a     *)
(* busy timeout) and one socket path.                                      *)
(*                                                                         *)
(* Text is a sequence of Unicode code points, a datagram a sequence of     *)
(* bytes.  Timestamps are whole hours.                                     *)
(***************************************************************************)
EXTENDS Integers, Sequences, FiniteSets, TLC

VARIABLES
    pc,          \* position of every process in its function
    rows,        \* the logs table, in rowid order
    seq,         \* sqlite_sequence: the largest id ever assigned (AUTOINCREMENT)
    storeOk,     \* whether the storage target can be opened (permissions, disk)
    tableExists, \* whether the logs table has been created
    lock,        \* the process holding the engine's write lock, or None
    now,         \* the engine's clock (CURRENT_TIMESTAMP), in hours
    sock,        \* what the socket path refers to
    raw,         \* per daemon: the bytes of the datagram last received (buf[..size])
    pending,     \* per process: the (source, severity, message) bound to its INSERT
    myid,        \* per process: the id the engine chose for the row being inserted
    res,         \* per process: result of its last conn.execute ("none","ok","busy"); for a
                 \* daemon before its first insert, of fs::remove_file
    diag,        \* per process: what it wrote to its diagnostic output (stderr)
    out,         \* per process: what it wrote to its standard output
    hist,        \* history: for every id ever assigned, who inserted it and from what
    argv         \* per process: its command line after the program name (args[1..])

vars == <<pc, rows, seq, storeOk, tableExists, lock, now, sock, raw, pending, myid, res,
          diag, out, hist, argv>>

----------------------------------------------------------------------------
(* Bounds of the model *)

NumWriters == 2   \* one-shot writers
MaxNew == 2       \* rows inserted during a run (on top of the rows found at start)
MaxTicks == 1     \* hours the clock advances during a run
MaxDiag == 1      \* receive errors a daemon meets
MaxLen == 5       \* bytes of a datagram in the decoder specification
MaxArgs == 4      \* arguments of a command line in the dispatch specification
MaxRecv == 3      \* datagrams a daemon receives in the restart specification

(* Program constants *)

BufSize == 4096          \* let mut buf = [0u8; 4096]
RetentionHours == 24     \* datetime('now', '-24 hours')
ReplacementChar == 65533 \* U+FFFD, what from_utf8_lossy puts for invalid bytes
Space == 32              \* the separator of splitn(3, ' ')

\* the clock at start: the oldest timestamp modelled (hour 0) is one hour past the window
Now0 == RetentionHours + 1

----------------------------------------------------------------------------
(* Processes *)

None == <<"none", 0>>
Pre == <<"pre", 0>>      \* "inserted before the run started"
FirstDaemon == <<"d", 1>>
SecondDaemon == <<"d", 2>>   \* a daemon started on the same socket path (a restart)
Daemons == {FirstDaemon, SecondDaemon}
Service == {FirstDaemon}     \* the daemon of the system specification
Writers == {<<"w", i>> : i \in 1..NumWriters}
Sweeps == {<<"s", 1>>}
Invocations == {<<"m", 1>>}  \* an invocation followed from the top of main
Procs == Daemons \cup Writers \cup Sweeps \cup Invocations

----------------------------------------------------------------------------
(* Message decoding: run_daemon, lines 123-137 *)

\* The byte alphabet of datagrams: 'a', 'b', space, tab and 0xFF.  0xFF occurs in
\* no well-formed UTF-8 sequence.
Bytes == {97, 98, 32, 9, 255}

\* String::from_utf8_lossy over Bytes: an ASCII byte is its own code point; a byte
\* that can start or continue no UTF-8 sequence becomes U+FFFD.
FromUtf8Lossy(b) ==
    [i \in 1..Len(b) |-> IF b[i] < 128 THEN b[i] ELSE ReplacementChar]

\* char::is_whitespace (the White_Space property) below U+0100
IsWhitespace(c) == c \in {9, 10, 11, 12, 13, 32, 133, 160}

RECURSIVE TrimStart(_)
TrimStart(s) ==
    IF s # <<>> /\ IsWhitespace(Head(s)) THEN TrimStart(Tail(s)) ELSE s

RECURSIVE TrimEnd(_)
TrimEnd(s) ==
    IF s # <<>> /\ IsWhitespace(s[Len(s)])
    THEN TrimEnd(SubSeq(s, 1, Len(s) - 1))
    ELSE s

\* str::trim
Trim(s) == TrimEnd(TrimStart(s))

\* index of the first occurrence of c in s, 0 when there is none
RECURSIVE Find(_, _, _)
Find(s, c, i) ==
    IF i > Len(s) THEN 0
    ELSE IF s[i] = c THEN i
    ELSE Find(s, c, i + 1)

\* str::splitn(n, sep) collected: at most n parts, the last one the remainder
RECURSIVE SplitN(_, _, _)
SplitN(n, sep, s) ==
    LET i == Find(s, sep, 1) IN
    IF n <= 1 \/ i = 0 THEN <<s>>
    ELSE <<SubSeq(s, 1, i - 1)>> \o SplitN(n - 1, sep, SubSeq(s, i + 1, Len(s)))

Unknown == <<117, 110, 107, 110, 111, 119, 110>>   \* "unknown"
Raw == <<82, 65, 87>>                              \* "RAW"

\* the number of parts the daemon asks splitn for
SplitLimit == 3

\* faulty variant: split(' ') in place of splitn(3, ' ')
PartsSplitAll(t) == SplitN(Len(t) + 1, Space, t)

\* the parts of the trimmed text
Parts(t) == SplitN(SplitLimit, Space, t)

\* SQL NULL, which no text is
Null == <<-1>>

\* faulty variant: the sentinels in each other's place
FallbackSwapped(t) == <<Raw, Unknown, t>>

\* faulty variant: no source is bound in the else branch
FallbackNoSource(t) == <<Null, Raw, t>>

\* the params! of the else branch
Fallback(t) == <<Unknown, Raw, t>>

\* The triple the daemon binds to its INSERT for the bytes buf[..size]
Decode(b) ==
    LET t == Trim(FromUtf8Lossy(b))
        parts == Parts(t)
    IN  IF Len(parts) = 3
        THEN <<parts[1], parts[2], parts[3]>>
        ELSE Fallback(t)

\* recv_from(&mut buf): the datagram, cut to the buffer
Received(p) == SubSeq(p, 1, IF Len(p) < BufSize THEN Len(p) ELSE BufSize)

----------------------------------------------------------------------------
(* The store: init_db, and what the engine does for the statements executed *)

Absent == <<"absent", 0>>     \* no file at the socket path
Stale == <<"stale", 0>>       \* a socket file a previous run left behind
Blocked == <<"blocked", 0>>   \* a path that can be neither removed nor bound

\* command-line arguments of one-shot writer w: SOURCE SEVERITY MESSAGE
Args(w) == <<<<119, 48 + w[2]>>, <<73>>, <<97, 32, 98>>>>

\* timestamps (hours) of the rows an earlier run may have left in the store: with
\* the clock at Now0 their ages are 25 h, 23 h and 1 h
PreTimeline == <<0, 2, RetentionHours>>

NewRow(id, ts, t) ==
    [id |-> id, timestamp |-> ts, source |-> t[1], severity |-> t[2], message |-> t[3]]

PreRow(i, ts) == NewRow(i, ts, <<<<112>>, <<73>>, <<97>>>>)

\* the tables a store may hold at start: the first n rows of the timeline
PreStores == {[i \in 1..n |-> PreRow(i, PreTimeline[i])] : n \in 0..Len(PreTimeline)}

Ids == {rows[i].id : i \in 1..Len(rows)}

NewCount == Cardinality({i \in DOMAIN hist : hist[i].by # Pre})
InFlight == Cardinality({p \in Procs : pc[p] \in {"insert", "commit"}})
\* the model starts an insert only while fewer than MaxNew rows are new or under way
MayStartInsert == NewCount + InFlight < MaxNew

SetMax(S) == CHOOSE x \in S : \A y \in S : y <= x

\* faulty variant: id INTEGER PRIMARY KEY without AUTOINCREMENT, one more than the
\* largest id in the table
NextIdNoAutoincrement == IF rows = <<>> THEN 1 ELSE SetMax(Ids) + 1

\* id INTEGER PRIMARY KEY AUTOINCREMENT: one more than the largest id ever assigned
NextId == seq + 1

\* faulty variant: a store opened without locking, where a write never waits
WriteLockFreeNoLocking == TRUE

\* Only one connection writes at a time: a statement that writes starts once no
\* other connection holds the write lock.
WriteLockFree == lock = None

\* The write lock stays with another connection for longer than busy_timeout.
BusyPastBudget(p) == lock # None /\ lock # p

BeginWrite(p) ==
    /\ WriteLockFree
    /\ lock' = p

\* INSERT INTO logs (source, severity, message): the engine takes the write lock
\* and chooses the row's id
BeginInsert(p) ==
    /\ BeginWrite(p)
    /\ myid' = [myid EXCEPT ![p] = NextId]

\* the transaction commits: the row is appended with the engine's id and clock
\* faulty variant: the table is kept as a ring, the new row pushes the oldest one out
CommitInsertReplacing(p) ==
    /\ rows' = IF rows = <<>> THEN <<NewRow(myid[p], now, pending[p])>>
               ELSE Append(Tail(rows), NewRow(myid[p], now, pending[p]))
    /\ seq' = IF myid[p] > seq THEN myid[p] ELSE seq
    /\ lock' = None
    /\ res' = [res EXCEPT ![p] = "ok"]
    /\ myid' = [myid EXCEPT ![p] = 0]
    /\ hist' = (myid[p] :> [by |-> p, raw |-> IF p \in Daemons THEN raw[p] ELSE <<>>])
                @@ hist

CommitInsert(p) ==
    /\ rows' = Append(rows, NewRow(myid[p], now, pending[p]))
    /\ seq' = IF myid[p] > seq THEN myid[p] ELSE seq
    /\ lock' = None
    /\ res' = [res EXCEPT ![p] = "ok"]
    /\ myid' = [myid EXCEPT ![p] = 0]
    /\ hist' = (myid[p] :> [by |-> p, raw |-> IF p \in Daemons THEN raw[p] ELSE <<>>])
                @@ hist

\* Connection::open, the pragmas and CREATE TABLE IF NOT EXISTS succeed
InitDbOk ==
    /\ storeOk
    /\ tableExists' = TRUE

\* faulty variant: CREATE TABLE without IF NOT EXISTS, an error once the table exists
InitDbErrTableExists ==
    /\ ~storeOk \/ tableExists
    /\ UNCHANGED tableExists

\* one of them returns Err, which `?` hands to the caller
InitDbErr ==
    /\ ~storeOk
    /\ UNCHANGED tableExists

\* main returns Err: the error goes to stderr and the process exits with status 1
ExitErr(p, to) ==
    /\ pc' = [pc EXCEPT ![p] = to]
    /\ diag' = [diag EXCEPT ![p] = Append(@, "Error")]

ExitCode(p) ==
    CASE pc[p] \in {"done", "help"} -> 0
      [] pc[p] \in {"open_failed", "write_failed", "usage"} -> 1
      [] pc[p] = "panicked" -> 101
      [] OTHER -> -1

\* main's words: "-d", "--daemon", "-c", "--compact", "-h", "--help"
DaemonFlags == {<<45, 100>>, <<45, 45, 100, 97, 101, 109, 111, 110>>}
CompactFlags == {<<45, 99>>, <<45, 45, 99, 111, 109, 112, 97, 99, 116>>}
HelpFlags == {<<45, 104>>, <<45, 45, 104, 101, 108, 112>>}

\* the command line that brings a process of each kind into its function
Argv0(p) ==
    IF p \in Daemons THEN <<<<45, 100>>>>
    ELSE IF p \in Sweeps THEN <<<<45, 99>>>>
    ELSE IF p \in Writers THEN Args(p)
    ELSE <<>>

\* where a process stands at the start: an invocation at the top of main, every
\* other process at the top of the function main has called for it
StartPc(p) == IF p \in Invocations THEN "main" ELSE "start"

----------------------------------------------------------------------------
Init ==
    /\ pc = [p \in Procs |-> StartPc(p)]
    /\ rows \in PreStores
    /\ seq = Len(rows)
    /\ storeOk \in BOOLEAN
    /\ tableExists \in (IF rows = <<>> THEN BOOLEAN ELSE {TRUE})
    /\ lock = None
    /\ now = Now0
    /\ sock \in {Absent, Stale, Blocked}
    /\ raw = [d \in Daemons |-> <<>>]
    /\ pending = [p \in Procs |-> IF p \in Writers THEN Args(p) ELSE <<>>]
    /\ myid = [p \in Procs |-> 0]
    /\ res = [p \in Procs |-> "none"]
    /\ diag = [p \in Procs |-> <<>>]
    /\ out = [p \in Procs |-> <<>>]
    /\ hist = [i \in 1..Len(rows) |-> [by |-> Pre, raw |-> <<>>]]
    /\ argv = [p \in Procs |-> Argv0(p)]

----------------------------------------------------------------------------
(* run_daemon *)

\* the positions of a daemon inside its receive loop (its socket is bound)
Listening == {"recv", "recv_err", "insert", "commit"}

\* faulty variant: the socket file is removed before the store is opened
DaemonOpenAfterRemove(d) ==
    /\ pc[d] = "start"
    /\ sock' = IF sock = Blocked THEN Blocked ELSE Absent
    /\ \/ /\ InitDbOk
          /\ pc' = [pc EXCEPT ![d] = "remove"]
          /\ UNCHANGED diag
       \/ /\ InitDbErr
          /\ ExitErr(d, "open_failed")
    /\ UNCHANGED <<rows, seq, storeOk, argv, lock, now, raw, pending, myid, res, out, hist>>

\* let conn = init_db()?;
DaemonOpen(d) ==
    /\ pc[d] = "start"
    /\ \/ /\ InitDbOk
          /\ pc' = [pc EXCEPT ![d] = "remove"]
          /\ UNCHANGED diag
       \/ /\ InitDbErr
          /\ ExitErr(d, "open_failed")
    /\ UNCHANGED <<rows, seq, storeOk, argv, lock, now, sock, raw, pending, myid, res, out, hist>>

\* faulty variant: only a file without a listener is removed
DaemonRemoveStaleOnly(d) ==
    /\ pc[d] = "remove"
    /\ sock' = IF sock = Stale THEN Absent ELSE sock
    /\ res' = [res EXCEPT ![d] = IF sock = Stale THEN "removed" ELSE "not_removed"]
    /\ pc' = [pc EXCEPT ![d] = "bind"]
    /\ UNCHANGED <<rows, seq, storeOk, argv, tableExists, lock, now, raw, pending, myid,
                   diag, out, hist>>

\* faulty variant: no remove_file before the bind
DaemonRemoveSkipped(d) ==
    /\ pc[d] = "remove"
    /\ res' = [res EXCEPT ![d] = "not_removed"]
    /\ pc' = [pc EXCEPT ![d] = "bind"]
    /\ UNCHANGED <<rows, seq, storeOk, argv, tableExists, lock, now, sock, raw, pending, myid,
                   diag, out, hist>>

\* let _ = fs::remove_file(&socket_path);
DaemonRemove(d) ==
    /\ pc[d] = "remove"
    /\ sock' = IF sock = Blocked THEN Blocked ELSE Absent
    /\ res' = [res EXCEPT ![d] = IF sock \in {Absent, Blocked} THEN "not_removed" ELSE "removed"]
    /\ pc' = [pc EXCEPT ![d] = "bind"]
    /\ UNCHANGED <<rows, seq, storeOk, argv, tableExists, lock, now, raw, pending, myid,
                   diag, out, hist>>

\* faulty variant: the result of bind is not looked at
DaemonBindUnchecked(d) ==
    /\ pc[d] = "bind"
    /\ sock' = IF sock = Absent THEN d ELSE sock
    /\ out' = [out EXCEPT ![d] = Append(@, [msg |-> "listening", n |-> 0])]
    /\ pc' = [pc EXCEPT ![d] = "recv"]
    /\ UNCHANGED <<rows, seq, storeOk, argv, tableExists, lock, now, raw, pending, myid, res,
                   diag, hist>>

\* UnixDatagram::bind(&socket_path).unwrap_or_else(|e| panic!(..)); println!(..)
DaemonBind(d) ==
    /\ pc[d] = "bind"
    /\ IF sock = Absent
       THEN /\ sock' = d
            /\ out' = [out EXCEPT ![d] = Append(@, [msg |-> "listening", n |-> 0])]
            /\ pc' = [pc EXCEPT ![d] = "recv"]
            /\ UNCHANGED diag
       ELSE /\ pc' = [pc EXCEPT ![d] = "panicked"]
            /\ diag' = [diag EXCEPT ![d] = Append(@, "Could not bind socket")]
            /\ UNCHANGED <<sock, out>>
    /\ UNCHANGED <<rows, seq, storeOk, argv, tableExists, lock, now, raw, pending, myid, res, hist>>

\* socket.recv_from(&mut buf) returns Ok((size, _)); the payload is decoded
DaemonRecvOk(d, p) ==
    /\ pc[d] = "recv"
    /\ sock = d
    /\ MayStartInsert
    /\ raw' = [raw EXCEPT ![d] = Received(p)]
    /\ pending' = [pending EXCEPT ![d] = Decode(Received(p))]
    /\ pc' = [pc EXCEPT ![d] = "insert"]
    /\ UNCHANGED <<rows, seq, storeOk, argv, tableExists, lock, now, sock, myid, res, diag, out, hist>>

\* socket.recv_from(&mut buf) returns Err(e)
DaemonRecvErr(d) ==
    /\ pc[d] = "recv"
    /\ Len(diag[d]) < MaxDiag
    /\ pc' = [pc EXCEPT ![d] = "recv_err"]
    /\ UNCHANGED <<rows, seq, storeOk, argv, tableExists, lock, now, sock, raw, pending, myid, res,
                   diag, out, hist>>

\* faulty variant: the error is logged and ends the loop
DaemonLogRecvErrBreaks(d) ==
    /\ pc[d] = "recv_err"
    /\ diag' = [diag EXCEPT ![d] = Append(@, "Socket read error")]
    /\ pc' = [pc EXCEPT ![d] = "done"]
    /\ UNCHANGED <<rows, seq, storeOk, argv, tableExists, lock, now, sock, raw, pending, myid,
                   res, out, hist>>

\* Err(e) => eprintln!("Socket read error: {}", e), and the loop goes on
DaemonLogRecvErr(d) ==
    /\ pc[d] = "recv_err"
    /\ diag' = [diag EXCEPT ![d] = Append(@, "Socket read error")]
    /\ pc' = [pc EXCEPT ![d] = "recv"]
    /\ UNCHANGED <<rows, seq, storeOk, argv, tableExists, lock, now, sock, raw, pending, myid, res,
                   out, hist>>

\* let _ = conn.execute("INSERT ..."): the statement starts
DaemonInsertBegin(d) ==
    /\ pc[d] = "insert"
    /\ BeginInsert(d)
    /\ pc' = [pc EXCEPT ![d] = "commit"]
    /\ UNCHANGED <<rows, seq, storeOk, argv, tableExists, now, sock, raw, pending, res, diag, out, hist>>

\* faulty variant: after the insert the daemon inserts the same datagram again
DaemonInsertCommitAgain(d) ==
    /\ pc[d] = "commit"
    /\ CommitInsert(d)
    /\ pc' = [pc EXCEPT ![d] = "insert"]
    /\ UNCHANGED <<storeOk, argv, tableExists, now, sock, raw, pending, diag, out>>

\* ... and returns Ok
DaemonInsertCommit(d) ==
    /\ pc[d] = "commit"
    /\ CommitInsert(d)
    /\ pc' = [pc EXCEPT ![d] = "recv"]
    /\ UNCHANGED <<storeOk, argv, tableExists, now, sock, raw, pending, diag, out>>

\* faulty variant: conn.execute(..)? hands the error to main
DaemonInsertBusyExits(d) ==
    /\ pc[d] = "insert"
    /\ BusyPastBudget(d)
    /\ res' = [res EXCEPT ![d] = "busy"]
    /\ ExitErr(d, "write_failed")
    /\ UNCHANGED <<rows, seq, storeOk, argv, tableExists, lock, now, sock, raw, pending, myid,
                   out, hist>>

\* ... or returns Err (database is locked); `let _ =` drops the error
DaemonInsertBusy(d) ==
    /\ pc[d] = "insert"
    /\ BusyPastBudget(d)
    /\ res' = [res EXCEPT ![d] = "busy"]
    /\ pc' = [pc EXCEPT ![d] = "recv"]
    /\ UNCHANGED <<rows, seq, storeOk, argv, tableExists, lock, now, sock, raw, pending, myid,
                   diag, out, hist>>

----------------------------------------------------------------------------
(* run_oneshot *)

\* let conn = init_db()?;
OneshotOpen(w) ==
    /\ pc[w] = "start"
    /\ MayStartInsert
    /\ \/ /\ InitDbOk
          /\ pc' = [pc EXCEPT ![w] = "insert"]
          /\ UNCHANGED diag
       \/ /\ InitDbErr
          /\ ExitErr(w, "open_failed")
    /\ UNCHANGED <<rows, seq, storeOk, argv, lock, now, sock, raw, pending, myid, res, out, hist>>

\* conn.execute("INSERT ...", params![source, severity, message])?: the statement starts
OneshotInsertBegin(w) ==
    /\ pc[w] = "insert"
    /\ BeginInsert(w)
    /\ pc' = [pc EXCEPT ![w] = "commit"]
    /\ UNCHANGED <<rows, seq, storeOk, argv, tableExists, now, sock, raw, pending, res, diag, out, hist>>

\* ... and returns Ok; Ok(())
OneshotInsertCommit(w) ==
    /\ pc[w] = "commit"
    /\ CommitInsert(w)
    /\ pc' = [pc EXCEPT ![w] = "done"]
    /\ UNCHANGED <<storeOk, argv, tableExists, now, sock, raw, pending, diag, out>>

\* faulty variant: the Result of the insert is dropped and run_oneshot returns Ok(())
OneshotInsertBusySwallowed(w) ==
    /\ pc[w] = "insert"
    /\ BusyPastBudget(w)
    /\ res' = [res EXCEPT ![w] = "busy"]
    /\ pc' = [pc EXCEPT ![w] = "done"]
    /\ UNCHANGED <<rows, seq, storeOk, argv, tableExists, lock, now, sock, raw, pending, myid, diag,
                   out, hist>>

\* ... or returns Err, which `?` hands to main
OneshotInsertBusy(w) ==
    /\ pc[w] = "insert"
    /\ BusyPastBudget(w)
    /\ res' = [res EXCEPT ![w] = "busy"]
    /\ ExitErr(w, "write_failed")
    /\ UNCHANGED <<rows, seq, storeOk, argv, tableExists, lock, now, sock, raw, pending, myid, out, hist>>

----------------------------------------------------------------------------
(* run_cleanup *)

\* faulty variant: timestamp <= datetime('now', '-24 hours')
ExpiredInclusive(r) == r.timestamp <= now - RetentionHours

\* timestamp < datetime('now', '-24 hours')
Expired(r) == r.timestamp < now - RetentionHours

Kept(r) == ~Expired(r)

Say(s, m, k) == out' = [out EXCEPT ![s] = Append(@, [msg |-> m, n |-> k])]

\* println!("Starting database maintenance"); let conn = init_db()?;
SweepOpen(s) ==
    /\ pc[s] = "start"
    /\ Say(s, "Starting database maintenance", 0)
    /\ \/ /\ InitDbOk
          /\ pc' = [pc EXCEPT ![s] = "delete"]
          /\ UNCHANGED diag
       \/ /\ InitDbErr
          /\ ExitErr(s, "open_failed")
    /\ UNCHANGED <<rows, seq, storeOk, argv, lock, now, sock, raw, pending, myid, res, hist>>

\* conn.execute("DELETE FROM logs WHERE ...")?: the statement starts
SweepDeleteBegin(s) ==
    /\ pc[s] = "delete"
    /\ BeginWrite(s)
    /\ pc' = [pc EXCEPT ![s] = "deleting"]
    /\ UNCHANGED <<rows, seq, storeOk, argv, tableExists, now, sock, raw, pending, myid, res,
                   diag, out, hist>>

\* faulty variant: DELETE and VACUUM share one transaction, the write lock is kept
SweepDeleteCommitHoldsLock(s) ==
    /\ pc[s] = "deleting"
    /\ rows' = SelectSeq(rows, Kept)
    /\ res' = [res EXCEPT ![s] = "ok"]
    /\ out' = [out EXCEPT ![s] =
                 @ \o <<[msg |-> "Deleted", n |-> Len(rows) - Len(SelectSeq(rows, Kept))],
                        [msg |-> "Running VACUUM", n |-> 0]>>]
    /\ pc' = [pc EXCEPT ![s] = "vacuum"]
    /\ UNCHANGED <<seq, storeOk, argv, tableExists, lock, now, sock, raw, pending, myid, diag, hist>>

\* ... and returns Ok(deleted); println!("Deleted {} old log entries."); println!("Running VACUUM...")
SweepDeleteCommit(s) ==
    /\ pc[s] = "deleting"
    /\ rows' = SelectSeq(rows, Kept)
    /\ lock' = None
    /\ res' = [res EXCEPT ![s] = "ok"]
    /\ out' = [out EXCEPT ![s] =
                 @ \o <<[msg |-> "Deleted", n |-> Len(rows) - Len(SelectSeq(rows, Kept))],
                        [msg |-> "Running VACUUM", n |-> 0]>>]
    /\ pc' = [pc EXCEPT ![s] = "vacuum"]
    /\ UNCHANGED <<seq, storeOk, argv, tableExists, now, sock, raw, pending, myid, diag, hist>>

\* ... or returns Err, which `?` hands to main
SweepDeleteBusy(s) ==
    /\ pc[s] = "delete"
    /\ BusyPastBudget(s)
    /\ res' = [res EXCEPT ![s] = "busy"]
    /\ ExitErr(s, "write_failed")
    /\ UNCHANGED <<rows, seq, storeOk, argv, tableExists, lock, now, sock, raw, pending, myid, out, hist>>

\* conn.execute("VACUUM", [])?: the statement starts
SweepVacuumBegin(s) ==
    /\ pc[s] = "vacuum"
    /\ BeginWrite(s)
    /\ pc' = [pc EXCEPT ![s] = "vacuuming"]
    /\ UNCHANGED <<rows, seq, storeOk, argv, tableExists, now, sock, raw, pending, myid, res,
                   diag, out, hist>>

\* ... and returns Ok; println!("Maintenance complete."); Ok(())
SweepVacuumEnd(s) ==
    /\ pc[s] = "vacuuming"
    /\ lock' = None
    /\ Say(s, "Maintenance complete", 0)
    /\ pc' = [pc EXCEPT ![s] = "done"]
    /\ UNCHANGED <<rows, seq, storeOk, argv, tableExists, now, sock, raw, pending, myid, res, diag, hist>>

\* faulty variant: the sweep waits and tries the VACUUM again
SweepVacuumBusyRetries(s) ==
    /\ pc[s] = "vacuum"
    /\ BusyPastBudget(s)
    /\ res' = [res EXCEPT ![s] = "busy"]
    /\ UNCHANGED <<pc, rows, seq, storeOk, argv, tableExists, lock, now, sock, raw, pending, myid,
                   diag, out, hist>>

\* ... or returns Err, which `?` hands to main
SweepVacuumBusy(s) ==
    /\ pc[s] = "vacuum"
    /\ BusyPastBudget(s)
    /\ res' = [res EXCEPT ![s] = "busy"]
    /\ ExitErr(s, "write_failed")
    /\ UNCHANGED <<rows, seq, storeOk, argv, tableExists, lock, now, sock, raw, pending, myid, out, hist>>

----------------------------------------------------------------------------
----------------------------------------------------------------------------
(* Two daemons on one socket path *)

\* The loop of run_daemon has no exit: a listening daemon ends only when it is
\* terminated from outside.  The engine rolls back the statement it was in and
\* releases the write lock; nothing removes the socket file, which stays behind
\* without a listener if it was this daemon's.
Kill(d) ==
    /\ pc[d] \in Listening
    /\ pc' = [pc EXCEPT ![d] = "killed"]
    /\ sock' = IF sock = d THEN Stale ELSE sock
    /\ lock' = IF lock = d THEN None ELSE lock
    /\ myid' = [myid EXCEPT ![d] = 0]
    /\ UNCHANGED <<rows, seq, storeOk, argv, tableExists, now, raw, pending, res, diag, out, hist>>

\* senders number their datagrams: the k-th datagram a daemon receives is k letters a,
\* one more than the one it received last
NextDatagram(d) == Append(raw[d], 97)

\* Two invocations with -d on an empty store
InitRestart ==
    /\ pc = [p \in Procs |-> StartPc(p)]
    /\ rows = <<>>
    /\ seq = 0
    /\ storeOk \in BOOLEAN
    /\ tableExists \in BOOLEAN
    /\ lock = None
    /\ now = Now0
    /\ sock \in {Absent, Stale, Blocked}
    /\ raw = [d \in Daemons |-> <<>>]
    /\ pending = [p \in Procs |-> IF p \in Writers THEN Args(p) ELSE <<>>]
    /\ myid = [p \in Procs |-> 0]
    /\ res = [p \in Procs |-> "none"]
    /\ diag = [p \in Procs |-> <<>>]
    /\ out = [p \in Procs |-> <<>>]
    /\ hist = <<>>
    /\ argv = [p \in Procs |-> Argv0(p)]

NextRestart ==
    \/ \E d \in Daemons : DaemonOpen(d)
    \/ \E d \in Daemons : DaemonRemove(d)
    \/ \E d \in Daemons : DaemonBind(d)
    \/ \E d \in Daemons : Len(raw[d]) < MaxRecv /\ DaemonRecvOk(d, NextDatagram(d))
    \/ \E d \in Daemons : DaemonRecvErr(d)
    \/ \E d \in Daemons : DaemonLogRecvErr(d)
    \/ \E d \in Daemons : DaemonInsertBegin(d)
    \/ \E d \in Daemons : DaemonInsertCommit(d)
    \/ \E d \in Daemons : DaemonInsertBusy(d)
    \/ \E d \in Daemons : Kill(d)

RestartSpec == InitRestart /\ [][NextRestart]_vars

----------------------------------------------------------------------------
(* main *)

\* what main does with a command line a (the arguments after the program name, so
\* args.len() is Len(a) + 1): the function it calls, or the usage text and an exit
Mode(a) ==
    IF Len(a) + 1 > 1
    THEN IF a[1] \in DaemonFlags THEN "run_daemon"
         ELSE IF a[1] \in CompactFlags THEN "run_cleanup"
         ELSE IF a[1] \in HelpFlags THEN "help"
         ELSE IF Len(a) + 1 >= 4 THEN "run_oneshot"
         ELSE "usage"
    ELSE "usage"

\* main, from its first line to the call or the exit.  run_oneshot(&args[1], &args[2],
\* &args[3]) is followed to its end by the run_oneshot actions; run_daemon and
\* run_cleanup are entered here and followed in the system specification.
\* print_usage writes to stderr.
MainDispatch(m) ==
    /\ pc[m] = "main"
    /\ pc' = [pc EXCEPT ![m] = IF Mode(argv[m]) = "run_oneshot" THEN "start"
                                ELSE Mode(argv[m])]
    /\ pending' = [pending EXCEPT ![m] = IF Mode(argv[m]) = "run_oneshot"
                                         THEN SubSeq(argv[m], 1, 3) ELSE @]
    /\ diag' = [diag EXCEPT ![m] = IF Mode(argv[m]) \in {"help", "usage"}
                                   THEN Append(@, "Usage") ELSE @]
    /\ UNCHANGED <<rows, seq, storeOk, argv, tableExists, lock, now, sock, raw, myid, res, out,
                   hist>>

\* the words of the command lines tried: every flag main knows, and a word that is none
ArgWords == DaemonFlags \cup CompactFlags \cup HelpFlags \cup {<<97>>}

\* every command line of at most MaxArgs words
CommandLines == UNION {[1..n -> ArgWords] : n \in 0..MaxArgs}

\* One invocation with any command line, on a store that does not exist yet
InitMain ==
    /\ pc = [p \in Procs |-> StartPc(p)]
    /\ rows = <<>>
    /\ seq = 0
    /\ storeOk \in BOOLEAN
    /\ tableExists = FALSE
    /\ lock = None
    /\ now = Now0
    /\ sock = Absent
    /\ raw = [d \in Daemons |-> <<>>]
    /\ pending = [p \in Procs |-> IF p \in Writers THEN Args(p) ELSE <<>>]
    /\ myid = [p \in Procs |-> 0]
    /\ res = [p \in Procs |-> "none"]
    /\ diag = [p \in Procs |-> <<>>]
    /\ out = [p \in Procs |-> <<>>]
    /\ hist = <<>>
    /\ \E a \in CommandLines : argv = [p \in Procs |-> IF p \in Invocations THEN a ELSE Argv0(p)]

NextMain ==
    \/ \E m \in Invocations : MainDispatch(m)
    \/ \E m \in Invocations : OneshotOpen(m)
    \/ \E m \in Invocations : OneshotInsertBegin(m)
    \/ \E m \in Invocations : OneshotInsertCommit(m)

MainSpec == InitMain /\ [][NextMain]_vars

\* an hour passes
Tick ==
    /\ now < Now0 + MaxTicks
    /\ now' = now + 1
    /\ UNCHANGED <<pc, rows, seq, storeOk, argv, tableExists, lock, sock, raw, pending, myid, res,
                   diag, out, hist>>

\* the datagrams senders put on the socket in the system specification
SysPayloads == {<<97, 32, 98, 32, 97, 10>>}

Next ==
    \/ \E d \in Service : DaemonOpen(d)
    \/ \E d \in Service : DaemonRemove(d)
    \/ \E d \in Service : DaemonBind(d)
    \/ \E d \in Service : \E p \in SysPayloads : DaemonRecvOk(d, p)
    \/ \E d \in Service : DaemonRecvErr(d)
    \/ \E d \in Service : DaemonLogRecvErr(d)
    \/ \E d \in Service : DaemonInsertBegin(d)
    \/ \E d \in Service : DaemonInsertCommit(d)
    \/ \E d \in Service : DaemonInsertBusy(d)
    \/ \E w \in Writers : OneshotOpen(w)
    \/ \E w \in Writers : OneshotInsertBegin(w)
    \/ \E w \in Writers : OneshotInsertCommit(w)
    \/ \E w \in Writers : OneshotInsertBusy(w)
    \/ \E s \in Sweeps : SweepOpen(s)
    \/ \E s \in Sweeps : SweepDeleteBegin(s)
    \/ \E s \in Sweeps : SweepDeleteCommit(s)
    \/ \E s \in Sweeps : SweepDeleteBusy(s)
    \/ \E s \in Sweeps : SweepVacuumBegin(s)
    \/ \E s \in Sweeps : SweepVacuumEnd(s)
    \/ \E s \in Sweeps : SweepVacuumBusy(s)
    \/ Tick

\* every datagram of at most MaxLen bytes over the byte alphabet
Datagrams == UNION {[1..n -> Bytes] : n \in 0..MaxLen}

\* A daemon that listens on a store some earlier run has filled
InitDecode ==
    /\ pc = [p \in Procs |-> IF p \in Service THEN "recv" ELSE StartPc(p)]
    /\ rows \in PreStores
    /\ seq = Len(rows)
    /\ storeOk = TRUE
    /\ tableExists = TRUE
    /\ lock = None
    /\ now = Now0
    /\ sock \in Service
    /\ raw = [d \in Daemons |-> <<>>]
    /\ pending = [p \in Procs |-> IF p \in Writers THEN Args(p) ELSE <<>>]
    /\ myid = [p \in Procs |-> 0]
    /\ res = [p \in Procs |-> "none"]
    /\ diag = [p \in Procs |-> <<>>]
    /\ out = [p \in Procs |->
                IF p \in Service THEN <<[msg |-> "listening", n |-> 0]>> ELSE <<>>]
    /\ hist = [i \in 1..Len(rows) |-> [by |-> Pre, raw |-> <<>>]]
    /\ argv = [p \in Procs |-> Argv0(p)]

\* the daemon receives one datagram, any of Datagrams, and inserts it
NextDecode ==
    \/ \E d \in Service :
          /\ pc[d] = "recv" /\ NewCount = 0
          /\ \E p \in Datagrams : DaemonRecvOk(d, p)
    \/ \E d \in Service : DaemonInsertBegin(d)
    \/ \E d \in Service : DaemonInsertCommit(d)

DecodeSpec == InitDecode /\ [][NextDecode]_vars

Spec == Init /\ [][Next]_vars

----------------------------------------------------------------------------
(* Properties of the system specification *)

\* the positions of a daemon that has bound its socket

\* the table's rows whose source is that of one-shot writer w
RowsOf(w) == {i \in 1..Len(rows) : rows[i].source = Args(w)[1]}

\* the row the engine makes of the parameters process p has bound
RowOf(p, id, ts) ==
    [id |-> id, timestamp |-> ts,
     source |-> pending[p][1], severity |-> pending[p][2], message |-> pending[p][3]]

\* C1. Loop isolation: a daemon that is Listening stays Listening; an insert that
\* fails takes the daemon back to receive; and for the message received after a
\* failed insert, an insert that starts while the store is writable goes through
\* and appends one row holding that message.
LoopIsolation ==
    [][\A d \in Daemons :
        /\ pc[d] \in Listening => pc'[d] \in Listening
        /\ (pc[d] = "insert" /\ pc'[d] \notin {"insert", "commit"}) => pc'[d] = "recv"
        /\ (pc[d] = "insert" /\ lock = None /\ pc'[d] # "insert") => pc'[d] = "commit"
        /\ (pc[d] = "commit" /\ pc'[d] # "commit")
              => /\ pc'[d] = "recv"
                 /\ \E id \in 1..(seq + 1) : rows' = Append(rows, RowOf(d, id, now))
      ]_vars

\* the insert before failed, the next message has been received and its insert is
\* under way
LoopIsolationWitness ==
    \E d \in Daemons : res[d] = "busy" /\ pc[d] = "commit" /\ lock = d

\* C2. Whenever an insert of the daemon fails, the daemon is back at receive only
\* after a line was added to its diagnostic output.
WriteFailureReported ==
    [][\A d \in Daemons :
        (pc[d] = "insert" /\ pc'[d] = "recv") => Len(diag'[d]) > Len(diag[d])
      ]_vars

\* C3. Concurrent one-shot writers: ids are unique in the table; a writer has a row
\* exactly when it is done, and then exactly one, holding its arguments; an insert
\* fails only by waiting past the busy budget.  Hence once all N writers have
\* issued their inserts and ended without waiting past the budget, all are done
\* and the table holds exactly N rows of theirs.
ConcurrentWriters ==
    /\ \A i, j \in 1..Len(rows) : rows[i].id = rows[j].id => i = j
    /\ \A w \in Writers :
        /\ Cardinality(RowsOf(w)) = (IF pc[w] = "done" THEN 1 ELSE 0)
        /\ \A i \in RowsOf(w) :
              /\ rows[i].severity = Args(w)[2]
              /\ rows[i].message = Args(w)[3]
              /\ hist[rows[i].id].by = w
        /\ pc[w] = "write_failed" => res[w] = "busy"
    /\ ( /\ \A w \in Writers : pc[w] \in {"done", "write_failed"}
         /\ \A w \in Writers : res[w] # "busy" )
       => /\ \A w \in Writers : pc[w] = "done"
          /\ Cardinality(UNION {RowsOf(w) : w \in Writers}) = NumWriters

\* all writers are done, beside a daemon that is listening
ConcurrentWritersWitness ==
    /\ \A w \in Writers : pc[w] = "done"
    /\ \E d \in Daemons : pc[d] \in Listening

\* C4. The id of a row that is inserted is greater than every id assigned before in
\* the store (ids of deleted rows included) and than every id in the table.
IdsNeverReused ==
    [][Len(rows') = Len(rows) + 1
        => LET r == rows'[Len(rows')] IN
           /\ \A i \in DOMAIN hist : r.id > i
           /\ \A i \in 1..Len(rows) : r.id > rows[i].id
      ]_vars

\* the sweep has emptied the table, and the engine has chosen the id of the next row
IdsNeverReusedWitness ==
    /\ rows = <<>>
    /\ DOMAIN hist # {}
    /\ \E p \in Procs : pc[p] = "commit" /\ myid[p] = Cardinality(DOMAIN hist) + 1

\* C5. A receive error is logged and the daemon is back at receive: the step that
\* handles it adds the line to the diagnostic output and takes the daemon to
\* receive, and neither the failed receive nor its handling touches the table.
RecvErrorIsolation ==
    [][\A d \in Daemons :
        /\ (pc[d] = "recv" /\ pc'[d] = "recv_err") => (rows' = rows /\ seq' = seq)
        /\ (pc[d] = "recv_err" /\ pc'[d] # "recv_err")
              => /\ pc'[d] = "recv"
                 /\ diag'[d] = Append(diag[d], "Socket read error")
                 /\ rows' = rows
                 /\ seq' = seq
      ]_vars

\* a receive error has been logged and the daemon is at receive again
RecvErrorIsolationWitness ==
    \E d \in Daemons :
        /\ pc[d] = "recv"
        /\ \E i \in 1..Len(diag[d]) : diag[d][i] = "Socket read error"

\* C6. A bind that fails ends the daemon at once, and a daemon ended so has never
\* announced that it listens, never received and never inserted.
BindFailureFatal ==
    [][\A d \in Daemons :
        /\ (pc[d] = "bind" /\ sock # Absent /\ pc'[d] # "bind") => pc'[d] = "panicked"
        /\ pc'[d] = "panicked"
              => /\ pc[d] \in {"bind", "panicked"}
                 /\ out'[d] = <<>>
                 /\ raw'[d] = <<>>
                 /\ res'[d] \notin {"ok", "busy"}
                 /\ \A i \in DOMAIN hist' : hist'[i].by # d
      ]_vars

\* the daemon has panicked on the bind
BindFailureFatalWitness ==
    \E d \in Daemons : pc[d] = "panicked" /\ sock = Blocked

\* C10. The delete of a sweep removes exactly the rows older than 24 hours, leaves
\* every other row as it was, and reports the number removed.
RetentionSweep ==
    [][\A s \in Sweeps :
        (pc[s] = "deleting" /\ pc'[s] # "deleting")
        => LET old == {i \in 1..Len(rows) : now - rows[i].timestamp > RetentionHours}
               young == (1..Len(rows)) \ old
           IN  /\ Len(rows') = Cardinality(young)
               /\ \A i \in young : \E j \in 1..Len(rows') : rows'[j] = rows[i]
               /\ \A i \in old : \A j \in 1..Len(rows') : rows'[j].id # rows[i].id
               /\ \E k \in 1..Len(out'[s]) :
                     /\ k > Len(out[s])
                     /\ out'[s][k] = [msg |-> "Deleted", n |-> Cardinality(old)]
      ]_vars

\* of the rows aged 25 h, 23 h and 1 h the sweep has removed the first and reported 1
RetentionSweepWitness ==
    \E s \in Sweeps :
        /\ pc[s] = "vacuum"
        /\ [msg |-> "Deleted", n |-> 1] \in {out[s][k] : k \in 1..Len(out[s])}
        /\ Len(rows) = 2
        /\ rows[1].id = 2 /\ now - rows[1].timestamp = 23
        /\ rows[2].id = 3 /\ now - rows[2].timestamp = 1

\* what a process has done so far, as far as its own fields show it
Progress(p) == <<pc[p], res[p], diag[p], out[p]>>

\* C11: a sweep whose DELETE or VACUUM finds the write lock held by another process
\* past the busy timeout ends there with exit status 1: it makes no second attempt
\* and never leaves the failed state.  Nothing keeps a sweep from starting: its first
\* step is enabled whatever the daemon and the one-shot writers are doing.
SweepBusyIsTerminal ==
    [][\A s \in Sweeps :
         /\ (/\ pc[s] \in {"delete", "vacuum"}
             /\ lock \notin {None, s}
             /\ Progress(s)' # Progress(s))
            => /\ pc'[s] = "write_failed"
               /\ res'[s] = "busy"
               /\ ExitCode(s)' = 1
               /\ rows' = rows /\ lock' = lock
         /\ pc[s] = "write_failed" => Progress(s)' = Progress(s)
         /\ pc[s] = "start" => ENABLED SweepOpen(s)]_vars

\* the sweep has failed on its VACUUM while a one-shot writer holds the write lock and
\* the daemon is listening
SweepBusyIsTerminalWitness ==
    \E s \in Sweeps, w \in Writers, d \in Service :
        /\ pc[s] = "write_failed" /\ res[s] = "busy"
        /\ \E k \in 1..Len(out[s]) : out[s][k].msg = "Deleted"
        /\ lock = w /\ pc[w] = "commit"
        /\ pc[d] \in Listening

\* C12: opening the store is idempotent.  The step that opens it (init_db) changes no
\* row, not the id sequence and not the history, whether or not the table exists; when
\* the storage target can be opened it does not fail, table or no table, and the
\* table exists afterwards.
OpenIsIdempotent ==
    [][\A p \in Procs :
         (pc[p] = "start" /\ pc'[p] # "start")
            => /\ rows' = rows /\ seq' = seq /\ hist' = hist
               /\ storeOk => (pc'[p] # "open_failed" /\ tableExists')
               /\ ~storeOk => tableExists' = tableExists]_vars

\* a store with three rows has been opened by the daemon and by a one-shot writer, one
\* after the other, and still holds the three rows with the sequence at 3
OpenIsIdempotentWitness ==
    \E d \in Service, w \in Writers :
        /\ pc[d] \in Listening /\ pc[w] = "insert"
        /\ Len(rows) = Len(PreTimeline) /\ seq = Len(PreTimeline)
        /\ \A i \in 1..Len(rows) : rows[i] = PreRow(i, PreTimeline[i])

\* the rows process p has inserted
InsertedBy(p) == {i \in 1..Len(rows) : hist[rows[i].id].by = p}

\* C13: ingestion only appends.  Every step leaves the table as it is, or is the commit
\* of a daemon's or a one-shot writer's insert and adds one row after the unchanged
\* rows, or is the sweep's delete and leaves some of the rows, each unchanged and in
\* their order.  So no daemon or one-shot step removes or changes a row, and no step at
\* all changes one.
AppendOnly ==
    [][\/ rows' = rows
       \/ /\ \E p \in Daemons \cup Writers : pc[p] = "commit" /\ pc'[p] # "commit"
          /\ Len(rows') = Len(rows) + 1
          /\ SubSeq(rows', 1, Len(rows)) = rows
       \/ /\ \E s \in Sweeps : pc[s] = "deleting" /\ pc'[s] = "vacuum"
          /\ Len(rows') < Len(rows)
          /\ \A j \in 1..Len(rows') : \E i \in 1..Len(rows) : rows[i] = rows'[j]
          /\ \A j, k \in 1..Len(rows') : j < k => rows'[j].id < rows'[k].id]_vars

\* the sweep has deleted expired rows and is done; the table holds a row from before
\* the run, a row of the daemon and a row of a one-shot writer
AppendOnlyWitness ==
    \E s \in Sweeps, d \in Service, w \in Writers :
        /\ pc[s] = "done"
        /\ \E k \in 1..Len(out[s]) : out[s][k].msg = "Deleted" /\ out[s][k].n > 0
        /\ InsertedBy(Pre) # {} /\ InsertedBy(d) # {} /\ InsertedBy(w) # {}

\* C14: a one-shot run has two outcomes.  Done: exit status 0, nothing on stderr, and
\* exactly one row of its own, carrying the three arguments.  Failed: exit status 1, the
\* error on stderr and no row of its own.  A store that cannot be opened and an insert
\* that returns an error both end in the failed outcome; a row of a writer exists only
\* once the writer is done.
OneshotOutcome ==
    \A w \in Writers :
        /\ pc[w] = "done"
             => /\ ExitCode(w) = 0 /\ diag[w] = <<>> /\ res[w] = "ok"
                /\ Cardinality(InsertedBy(w)) = 1
                /\ \A i \in InsertedBy(w) :
                      <<rows[i].source, rows[i].severity, rows[i].message>> = argv[w]
        /\ pc[w] \in {"open_failed", "write_failed"}
             => ExitCode(w) = 1 /\ diag[w] = <<"Error">> /\ InsertedBy(w) = {}
        /\ res[w] = "busy" => pc[w] = "write_failed"
        /\ (~storeOk /\ pc[w] # "start") => pc[w] = "open_failed"
        /\ InsertedBy(w) # {} => pc[w] = "done"

\* one writer is done with its row in the table, the other has failed on its insert
OneshotOutcomeWitness ==
    \E w, v \in Writers :
        /\ pc[w] = "done" /\ InsertedBy(w) # {}
        /\ pc[v] = "write_failed" /\ res[v] = "busy"

\* C16: the daemon removes the socket file before it binds, and a missing file is no
\* error.  The removal is the step before the bind; it takes a file left behind by an
\* earlier run away, reports nothing when there is no file, and goes on to the bind
\* either way.  The bind that follows succeeds and the daemon is listening, unless the
\* path itself cannot be used.
EndpointCleared ==
    [][\A d \in Daemons :
         /\ (pc[d] = "remove" /\ pc'[d] # "remove")
              => /\ pc'[d] = "bind" /\ diag'[d] = diag[d]
                 /\ sock \in {Stale, Absent} => sock' = Absent
         /\ pc'[d] = "bind" => pc[d] \in {"remove", "bind"}
         /\ (pc[d] = "bind" /\ pc'[d] # "bind" /\ sock # Blocked)
              => /\ pc'[d] = "recv" /\ sock' = d /\ diag'[d] = diag[d]
                 /\ out'[d] = Append(out[d], [msg |-> "listening", n |-> 0])]_vars

\* the daemon found a stale socket file, removed it, and is listening on the path
EndpointClearedWitness ==
    \E d \in Service : pc[d] = "recv" /\ sock = d /\ res[d] = "removed"

\* C17: the sweep's DELETE is a transaction of its own and its count is printed before
\* the VACUUM starts: when the sweep stands before the VACUUM the write lock is not its
\* own, the count printed is the number of rows the delete step removed, and no step of
\* the sweep after that changes the table.  A VACUUM that fails leaves the table as
\* the delete left it and ends the sweep with exit status 1; no step of anyone brings a
\* deleted row back.
DeleteCommittedBeforeReclaim ==
    [][/\ \A s \in Sweeps :
           /\ (pc[s] = "deleting" /\ pc'[s] # "deleting")
                => /\ pc'[s] = "vacuum" /\ lock' = None
                   /\ \E k \in 1..Len(out'[s]) :
                         /\ out'[s][k] = [msg |-> "Deleted", n |-> Len(rows) - Len(rows')]
                         /\ k > Len(out[s])
           /\ pc'[s] = "vacuum" => lock' # s
           /\ (pc[s] \in {"vacuum", "vacuuming"} /\ Progress(s)' # Progress(s))
                => rows' = rows
           /\ (pc[s] = "vacuum" /\ pc'[s] \notin {"vacuum", "vacuuming"})
                => pc'[s] = "write_failed" /\ ExitCode(s)' = 1
       /\ \A j \in 1..Len(rows') : rows'[j].id \in Ids \/ rows'[j].id > seq]_vars

\* the sweep deleted an expired row, printed the count, and then failed on its VACUUM;
\* the younger rows from before the run are in the table
DeleteCommittedBeforeReclaimWitness ==
    \E s \in Sweeps :
        /\ pc[s] = "write_failed"
        /\ \E k \in 1..Len(out[s]) : out[s][k] = [msg |-> "Deleted", n |-> 1]
        /\ \A i \in 1..Len(PreTimeline) :
              PreTimeline[i] >= Now0 - RetentionHours
                 => \E j \in 1..Len(rows) : rows[j] = PreRow(i, PreTimeline[i])
        /\ \A j \in 1..Len(rows) : rows[j].timestamp >= Now0 - RetentionHours

\* C19: the daemon opens the store before it touches the socket.  The step that opens
\* the store leaves the socket path alone; when the store cannot be opened it ends the
\* daemon with the error on stderr and exit status 1, and a daemon that ended so has
\* removed nothing, bound nothing and received nothing, and takes no further step.
StoreBeforeChannel ==
    [][\A d \in Daemons :
         /\ (pc[d] = "start" /\ pc'[d] # "start")
              => /\ sock' = sock
                 /\ ~storeOk => /\ pc'[d] = "open_failed" /\ ExitCode(d)' = 1
                                /\ diag'[d] = <<"Error">>
         /\ pc'[d] = "open_failed"
              => /\ pc[d] \in {"start", "open_failed"}
                 /\ out'[d] = <<>> /\ raw'[d] = <<>> /\ res'[d] = "none"
                 /\ sock' = sock]_vars

\* the store could not be opened: the daemon has ended and the stale socket file of an
\* earlier run is still there
StoreBeforeChannelWitness ==
    \E d \in Service : pc[d] = "open_failed" /\ sock = Stale /\ ~storeOk

----------------------------------------------------------------------------
(* Properties of the restart specification *)

\* the datagram a row was inserted from
DatagramOf(i) == hist[rows[i].id].raw

\* the rows of daemon d come from different datagrams, and a row from an earlier
\* datagram (a shorter one: datagrams are numbered by their length) has the smaller id
InReceiveOrder(d) ==
    \A i, j \in InsertedBy(d) :
        /\ i # j => DatagramOf(i) # DatagramOf(j)
        /\ Len(DatagramOf(i)) < Len(DatagramOf(j)) => rows[i].id < rows[j].id

\* C18: a daemon handles its datagrams one at a time, in the order received.  It
\* receives only at the top of its loop, with no insert of its own under way; a received
\* datagram takes it to one insert, which commits one row or fails, and then back to
\* the receive (or the daemon is terminated): never from a finished insert to another
\* insert.  No two rows of a daemon come from the same datagram, and of two rows the
\* one from the datagram received earlier has the smaller id.
OneAtATime ==
    [][\A d \in Daemons :
         /\ raw'[d] # raw[d]
              => /\ pc[d] = "recv" /\ pc'[d] = "insert"
                 /\ lock # d /\ myid[d] = 0
                 /\ raw'[d] = NextDatagram(d)
         /\ pc'[d] = "insert" => pc[d] \in {"recv", "insert"}
         /\ (pc[d] = "insert" /\ pc'[d] # "insert")
              => /\ pc'[d] \in {"commit", "recv", "killed"}
                 /\ rows' = rows
         /\ (pc[d] = "commit" /\ pc'[d] # "commit")
              => /\ pc'[d] \in {"recv", "killed"}
                 /\ pc'[d] = "recv"
                      => /\ Len(rows') = Len(rows) + 1
                         /\ hist'[rows'[Len(rows')].id] = [by |-> d, raw |-> raw[d]]
         /\ InReceiveOrder(d)']_vars

\* a daemon's first datagram was lost to a busy store; its second and its third are in
\* the table, in that order
OneAtATimeWitness ==
    \E d \in Daemons : \E i, j \in InsertedBy(d) :
        /\ Len(DatagramOf(i)) = 2 /\ Len(DatagramOf(j)) = 3
        /\ rows[i].id < rows[j].id
        /\ pc[d] = "recv"

\* C20: a daemon started while another one is listening takes the socket path over.
\* Its removal step unlinks the listening daemon's socket file; from then on, with the
\* other daemon in its loop, the path stays free until the new daemon's own bind, which
\* succeeds and makes the path refer to the new daemon.  A listening daemon that the
\* path does not refer to never gets it back and receives nothing more; it stays in its
\* loop (it can finish the insert it was in) until it is terminated from outside.
SecondDaemonTakesOver ==
    [][\A d, e \in Daemons :
         d # e =>
           /\ (pc[d] = "remove" /\ pc'[d] # "remove" /\ sock = e)
                => sock' = Absent /\ pc'[d] = "bind" /\ pc'[e] = pc[e]
           /\ (pc[d] = "bind" /\ sock = Absent /\ pc[e] \in Listening)
                => \/ sock' = Absent /\ pc'[d] = "bind"
                   \/ sock' = d /\ pc'[d] = "recv" /\ pc'[e] = pc[e]
           /\ (pc[e] \in Listening /\ sock # e)
                => /\ sock' # e
                   /\ raw'[e] = raw[e]
                   /\ pc'[e] \in Listening \cup {"killed"}
                   /\ pc[e] = "recv" => pc'[e] # "insert"
                   /\ pc'[e] = "killed" => pc'[d] = pc[d]]_vars

\* both daemons are in their loops and the path refers to the one bound last; the
\* earlier one has a row in the table from before it lost the path, the later one has
\* received since
SecondDaemonTakesOverWitness ==
    \E d, e \in Daemons :
        /\ d # e
        /\ pc[e] \in Listening /\ pc[d] \in Listening
        /\ sock = d
        /\ InsertedBy(e) # {} /\ InsertedBy(d) # {}

----------------------------------------------------------------------------
(* Properties of the dispatch specification *)

Flags == DaemonFlags \cup CompactFlags \cup HelpFlags

\* the documented forms of a command line
OneshotForm(a) == Len(a) = 3 /\ a[1] \notin Flags
DaemonForm(a) == Len(a) >= 1 /\ a[1] \in DaemonFlags
SweepForm(a) == Len(a) >= 1 /\ a[1] \in CompactFlags
HelpForm(a) == Len(a) >= 1 /\ a[1] \in HelpFlags

\* the positions of an invocation that is inside run_oneshot
InOneshot == {"start", "insert", "commit", "done", "open_failed", "write_failed"}

\* C15: an invocation that has left main's dispatch is in run_oneshot only if its
\* command line is SOURCE SEVERITY MESSAGE (three words, the first no flag), in
\* run_daemon only for -d/--daemon, in run_cleanup only for -c/--compact; with any other
\* command line short of -h/--help it has printed the usage text and exited with
\* status 1, and nothing has opened or written the store.
DispatchByForm ==
    \A m \in Invocations :
        pc[m] # "main"
          => /\ pc[m] \in InOneshot => OneshotForm(argv[m])
             /\ pc[m] = "run_daemon" => DaemonForm(argv[m])
             /\ pc[m] = "run_cleanup" => SweepForm(argv[m])
             /\ ~(OneshotForm(argv[m]) \/ DaemonForm(argv[m]) \/ SweepForm(argv[m])
                    \/ HelpForm(argv[m]))
                  => /\ pc[m] = "usage" /\ ExitCode(m) = 1
                     /\ diag[m] = <<"Usage">>
                     /\ ~tableExists /\ rows = <<>>

----------------------------------------------------------------------------
(* Properties of the decoder specification *)

\* the rows a daemon inserted
DaemonRows == {i \in 1..Len(rows) : hist[rows[i].id].by \in Daemons}

Stored(i) == <<rows[i].source, rows[i].severity, rows[i].message>>

SetMin(S) == CHOOSE x \in S : \A y \in S : x <= y

\* the text of a datagram: every byte above 0x7F of the alphabet is ill-formed
TextOf(b) == [i \in 1..Len(b) |-> IF b[i] \in 0..127 THEN b[i] ELSE ReplacementChar]

\* the text from its first to its last character that is not whitespace
Trimmed(s) ==
    LET ink == {i \in 1..Len(s) : ~IsWhitespace(s[i])}
    IN  IF ink = {} THEN <<>> ELSE SubSeq(s, SetMin(ink), SetMax(ink))

\* the positions of the separator (U+0020) in t
Spaces(t) == {i \in 1..Len(t) : t[i] = Space}

\* the three fields around the first two spaces of t
AroundSpaces(t) ==
    LET i1 == SetMin(Spaces(t))
        i2 == SetMin(Spaces(t) \ {i1})
    IN  <<SubSeq(t, 1, i1 - 1), SubSeq(t, i1 + 1, i2 - 1), SubSeq(t, i2 + 1, Len(t))>>

\* the parts of a trimmed text t split on its first two whitespace boundaries,
\* a boundary being a maximal run of whitespace
WhitespaceParts(t) ==
    LET ws == {i \in 1..Len(t) : IsWhitespace(t[i])}
        ink == (1..Len(t)) \ ws
    IN  IF t = <<>> THEN <<>>
        ELSE IF ws = {} THEN <<t>>
        ELSE LET i1 == SetMin(ws)
                 j1 == SetMin({j \in ink : j > i1})
                 ws2 == {i \in ws : i > j1}
             IN  IF ws2 = {} THEN <<SubSeq(t, 1, i1 - 1), SubSeq(t, j1, Len(t))>>
                 ELSE LET i2 == SetMin(ws2)
                          j2 == SetMin({j \in ink : j > i2})
                      IN  <<SubSeq(t, 1, i1 - 1), SubSeq(t, j1, i2 - 1),
                            SubSeq(t, j2, Len(t))>>

\* C7, as claimed. When the trimmed text splits into three parts on its first two
\* whitespace boundaries, the row the daemon stores holds these parts.
SplitsOnWhitespace ==
    \A i \in DaemonRows :
        LET parts == WhitespaceParts(Trimmed(TextOf(hist[rows[i].id].raw)))
        IN  Len(parts) = 3 => Stored(i) = parts

\* C7, amended. The separator is the space character U+0020 alone: when the
\* trimmed text holds two spaces or more, the row the daemon stores holds the text
\* before the first space, the text between the first two spaces and the text after
\* the second space (each possibly empty, the last with any further whitespace).
SplitsOnSpaces ==
    \A i \in DaemonRows :
        LET t == Trimmed(TextOf(hist[rows[i].id].raw))
        IN  Cardinality(Spaces(t)) >= 2 => Stored(i) = AroundSpaces(t)

\* the datagram "a  b\t" is stored as source "a", severity "" and message "b"
SplitsOnSpacesWitness ==
    \E i \in DaemonRows :
        /\ hist[rows[i].id].raw = <<97, 32, 32, 98, 9>>
        /\ Stored(i) = <<<<97>>, <<>>, <<98>>>>

\* C8. When the trimmed text does not split into three parts (it holds fewer than
\* two separators), the row the daemon stores has source "unknown", severity "RAW"
\* and the whole trimmed text as message; and every insert that goes through
\* stores a row, whatever the datagram.
FallbackRow ==
    /\ \A i \in DaemonRows :
          LET t == Trimmed(TextOf(hist[rows[i].id].raw))
          IN  Cardinality(Spaces(t)) < 2 => Stored(i) = <<Unknown, Raw, t>>
    /\ \A d \in Daemons :
          (pc[d] = "recv" /\ res[d] = "ok") => \E i \in DaemonRows : hist[rows[i].id].by = d

\* a datagram of whitespace alone is stored with an empty message
FallbackRowWitness ==
    \E i \in DaemonRows :
        /\ hist[rows[i].id].raw = <<32, 9>>
        /\ Stored(i) = <<Unknown, Raw, <<>>>>

IsText(x) == x # Null /\ \A k \in 1..Len(x) : x[k] \in 0..1114111

\* C9. Every datagram received is decoded into one triple of texts, which the
\* daemon goes on to insert; and every row of the table has an id, a timestamp, a
\* source, a severity and a message.
WellFormed ==
    /\ \A d \in Daemons :
          pc[d] \in {"insert", "commit"}
             => /\ Len(pending[d]) = 3
                /\ \A k \in 1..3 : IsText(pending[d][k])
    /\ \A i \in 1..Len(rows) :
          /\ rows[i].id \in 1..seq
          /\ rows[i].timestamp \in 0..now
          /\ IsText(rows[i].source)
          /\ IsText(rows[i].severity)
          /\ IsText(rows[i].message)

\* a datagram that is no UTF-8 has been stored
WellFormedWitness ==
    \E i \in DaemonRows :
        /\ hist[rows[i].id].raw = <<255, 255>>
        /\ Stored(i) = <<Unknown, Raw, <<ReplacementChar, ReplacementChar>>>>

====
